---- MODULE Spec2Model ----
(***************************************************************************)
(* ElectronicEmbedding.forward (schnetpack/nn/electronic_embeeding.py).    *)
(*                                                                         *)
(* Number representation (fixed point, exact integer arithmetic):          *)
(*   - atomic features, projection weights and queries are integers;       *)
(*   - the electronic property, its encoding e, the key input e/enorm,     *)
(*     keys and values are counted in units of 1/One (One stands for the   *)
(*     tensor entry 1.0 of torch.ones_like);                               *)
(*   - attention logits are counted in units of 1/(2*One);                 *)
(*   - softplus values, anorm and eps are counted in units of 1/1000;      *)
(*   - a quotient x / d is kept as the exact fraction <<x, d>>; the        *)
(*     fraction <<0, 0>> is the float result of 0/0 (NaN).                 *)
(* Tensors are sequences (1-based); segment ids stay 0-based as in torch.  *)
(***************************************************************************)
EXTENDS Integers, Sequences, FiniteSets, TLC

VARIABLES params, is_charged, atomic_features, electronic_feature,
          num_batch, batch_seg, eps, pc, out

vars == <<params, is_charged, atomic_features, electronic_feature,
          num_batch, batch_seg, eps, pc, out>>

\* ------------------------------------------------------------- bounds
\* most atoms (rows of atomic_features) in one batch
MaxAtoms == 2
\* most molecular graphs in one batch
MaxMol == 2

\* ------------------------------------------------------- input values
\* the fixed-point image of 1.0 in torch.ones_like(e)
One == 2
\* leading entry of an atomic feature row
FeatSeeds == {-250, 1}
\* charges / spins per molecular graph, in units of 1/One: -1.5, 0, 0.5
EVals == {-3, 0, 1}
\* eps of the call, in units of 1/1000
EpsVals == {0, 1}
\* constructed modules: <<num_features, parameter set>>; num_features is a
\* perfect square, so that k.shape[-1] ** 0.5 is exact
Modules == {<<1, 1>>, <<4, 2>>}

\* ------------------------------------------------------ scalar helpers
Relu(x) == IF x > 0 THEN x ELSE 0

Abs(x) == IF x < 0 THEN -x ELSE x

Maximum(x, y) == IF x >= y THEN x ELSE y

RECURSIVE Sum(_)
Sum(s) == IF Len(s) = 0 THEN 0 ELSE Head(s) + Sum(Tail(s))

Dot(x, y) == Sum([j \in 1..Len(x) |-> x[j] * y[j]])

\* k.shape[-1] ** 0.5
SqrtF(F) == CHOOSE r \in 1..F : r * r = F

\* nn.functional.softplus (beta = 1) on a logit in units of 1/(2*One) = 1/4,
\* result in units of 1/1000.  Tabulated on [-8, 8]; above, log1p(exp(x)) = x
\* to the unit; below, the result is a positive value under one unit down to
\* the float32 underflow of exp (x < -104), from where it is exactly 0.
SoftplusTable ==
    << 1, 1, 1, 1, 1, 1, 2, 2, 2, 3, 4, 5, 7,
       9, 11, 14, 18, 23, 30, 38, 49, 62, 79, 100, 127, 160,
       201, 252, 313, 387, 474, 576, 693, 826, 974, 1137, 1313, 1502, 1701,
       1910, 2127, 2350, 2579, 2812, 3049, 3288, 3530, 3773, 4018, 4264, 4511, 4759,
       5007, 5255, 5504, 5753, 6002, 6252, 6502, 6751, 7001, 7251, 7501, 7750, 8000 >>

Softplus(w) ==
    IF w > 32 THEN 250 * w
    ELSE IF w >= -32 THEN SoftplusTable[w + 33]
    ELSE IF w >= -416 THEN 1
    ELSE 0

\* ---------------------------------------------------------- parameters
\* linear_q.weight [F, F], linear_q.bias [F], linear_k.weight and
\* linear_v.weight [F, 2] (charged) or [F, 1], and the row map of resblock.
Params(F, s, charged) ==
    [Wq |-> [i \in 1..F |-> [j \in 1..F |->
                IF i = j THEN 1 ELSE IF s = 2 /\ j = i + 1 THEN -1 ELSE 0]],
     bq |-> [i \in 1..F |-> IF s = 2 /\ i = 1 THEN 1 ELSE 0],
     Wk |-> [i \in 1..F |-> [c \in 1..(IF charged THEN 2 ELSE 1) |->
                IF c = 1 THEN (IF i = 1 THEN 1 ELSE s - 1) ELSE (IF i = 1 THEN -1 ELSE 1)]],
     Wv |-> [i \in 1..F |-> [c \in 1..(IF charged THEN 2 ELSE 1) |->
                IF c = 1 THEN i + s - 1 ELSE -i]],
     Wr |-> [i \in 1..F |-> [j \in 1..F |->
                IF i = j THEN s ELSE IF j = 1 THEN 1 ELSE 0]]]

\* one atomic feature row of width F
AtomRow(F, c) == [j \in 1..F |-> IF j = 1 THEN c ELSE IF j = 2 THEN 1 ELSE 0]

AtomRows(F) == {AtomRow(F, c) : c \in FeatSeeds}

\* ------------------------------------------------------- tensor helpers
\* nn.Linear without bias on one row: W x
MatVec(W, x) == [i \in 1..Len(W) |-> Dot(W[i], x)]

\* q = self.linear_q(atomic_features)
LinearQ(p, af) == [i \in 1..Len(af) |-> [f \in 1..Len(p.Wq) |->
                      Dot(p.Wq[f], af[i]) + p.bq[f]]]

\* spins encoded without the absolute value
EncodeOneSigned(charged, x) ==
    IF charged THEN <<Relu(x), Relu(-x)>> ELSE <<x>>

\* charges stacked in the other order: [-ef, ef]
EncodeOneSwapped(charged, x) ==
    IF charged THEN <<Relu(-x), Relu(x)>> ELSE <<Abs(x)>>

\* e: relu(stack([ef, -ef])) for charges, abs(ef).unsqueeze(-1) for spins
EncodeOne(charged, x) ==
    IF charged THEN <<Relu(x), Relu(-x)>> ELSE <<Abs(x)>>

Encode(charged, ef) == [m \in 1..Len(ef) |-> EncodeOne(charged, ef[m])]

\* enorm = torch.maximum(e, torch.ones_like(e))
Enorm(e) == [m \in 1..Len(e) |-> [c \in 1..Len(e[m]) |-> Maximum(e[m][c], One)]]

\* e / enorm (the quotient is exact: enorm is One or the element itself)
KeyInput(e) ==
    [m \in 1..Len(e) |-> [c \in 1..Len(e[m]) |->
        (e[m][c] * One) \div Enorm(e)[m][c]]]

\* a key projection built with its default bias (a bias of 1 per feature)
LinearKBias(p, e) ==
    [m \in 1..Len(e) |-> [f \in 1..Len(p.Wk) |->
        Dot(p.Wk[f], KeyInput(e)[m]) + 1]]

\* self.linear_k(e / enorm), bias = False
LinearK(p, e) == [m \in 1..Len(e) |-> MatVec(p.Wk, KeyInput(e)[m])]

\* the value projection fed with the normalized encoding, as the key is
LinearVNormalized(p, e) == [m \in 1..Len(e) |-> MatVec(p.Wv, KeyInput(e)[m])]

\* self.linear_v(e), bias = False
LinearV(p, e) == [m \in 1..Len(e) |-> MatVec(p.Wv, e[m])]

\* t[idx] with an index tensor: an id in [-len, len) is accepted, a negative
\* one counts from the end; any other id raises IndexError
CanIndex(n, idx) == \A i \in 1..Len(idx) : idx[i] >= -n /\ idx[i] < n

IndexSelect(t, idx) ==
    [i \in 1..Len(idx) |->
        t[IF idx[i] < 0 THEN idx[i] + Len(t) + 1 ELSE idx[i] + 1]]

\* a gather that reads the entry after the one asked for
GatherOffByOne(t, idx) ==
    [i \in 1..Len(idx) |-> t[((idx[i] + 1) % Len(t)) + 1]]

\* torch.gather(t, 0, idx) on a 1-d tensor: out[i] = t[idx[i]]; an id outside
\* [0, len) raises
CanGather(n, idx) == \A i \in 1..Len(idx) : idx[i] >= 0 /\ idx[i] < n

Gather(t, idx) == [i \in 1..Len(idx) |-> t[idx[i] + 1]]

\* broadcasting of the leading dimension in k * q
Broadcastable(m, n) == m = n \/ m = 1 \/ n = 1

BroadcastLen(m, n) == IF m = 1 THEN n ELSE m

BroadcastRow(t, i) == IF Len(t) = 1 THEN t[1] ELSE t[i]

\* weights = torch.sum(k * q, dim=-1) / k.shape[-1] ** 0.5, in units of 1/(2*One)
Weights(k, q, F) ==
    [i \in 1..BroadcastLen(Len(k), Len(q)) |->
        (2 * Dot(BroadcastRow(k, i), BroadcastRow(q, i))) \div SqrtF(F)]

\* an index_add_ that lets negative ids through, as indexing does
CanIndexAddNoLower(n, idx, src) ==
    /\ Len(idx) = Len(src)
    /\ \A i \in 1..Len(idx) : idx[i] < n

\* a.new_zeros(num_batch).index_add_(0, batch_seg, a): the index and the
\* source must have the same length and every id must lie in [0, num_batch)
CanIndexAdd(n, idx, src) ==
    /\ Len(idx) = Len(src)
    /\ \A i \in 1..Len(idx) : idx[i] >= 0 /\ idx[i] < n

\* a segmented sum that leaves out the last atom of the batch
IndexAddSkipLast(n, idx, src) ==
    [m \in 1..n |->
        Sum([i \in 1..Len(src) |->
                IF idx[i] = m - 1 /\ i < Len(src) THEN src[i] ELSE 0])]

\* a sum over the whole batch instead of over the segment
IndexAddAll(n, idx, src) == [m \in 1..n |-> Sum(src)]

IndexAdd(n, idx, src) ==
    [m \in 1..n |->
        Sum([i \in 1..Len(src) |-> IF idx[i] = m - 1 THEN src[i] ELSE 0])]

\* anorm broadcast to the atoms: indexing on cpu, gather elsewhere
CanBroadcastNorm(dev, n, idx) ==
    IF dev = "cpu" THEN CanIndex(n, idx) ELSE CanGather(n, idx)

BroadcastNorm(dev, anorm, idx) ==
    IF dev = "cpu" THEN IndexSelect(anorm, idx) ELSE Gather(anorm, idx)

\* a normalization that forgets eps
NormalizeNoEps(a, anormB, e0) == [i \in 1..Len(a) |-> <<a[i], anormB[i]>>]

\* a / (anorm + eps), the exact fraction per atom
Normalize(a, anormB, e0) == [i \in 1..Len(a) |-> <<a[i], anormB[i] + e0>>]

\* (a / (anorm + eps)).unsqueeze(-1) * v: row i is num / den
WeightedValue(w, v) ==
    [i \in 1..Len(w) |-> [num |-> [f \in 1..Len(v[i]) |-> w[i][1] * v[i][f]],
                           den |-> w[i][2]]]

\* self.resblock: ResidualMLP acts on every row by itself (bias = False)
ResBlock(p, x) ==
    [i \in 1..Len(x) |-> [num |-> MatVec(p.Wr, x[i].num), den |-> x[i].den]]

Raised ==
    [status |-> "raised", device |-> "", e |-> <<>>, kin |-> <<>>, k |-> <<>>, v |-> <<>>,
     weights |-> <<>>, a |-> <<>>, anorm |-> <<>>, w |-> <<>>, y |-> <<>>]

NoResult ==
    [status |-> "none", device |-> "", e |-> <<>>, kin |-> <<>>, k |-> <<>>, v |-> <<>>,
     weights |-> <<>>, a |-> <<>>, anorm |-> <<>>, w |-> <<>>, y |-> <<>>]

\* ElectronicEmbedding.forward
ForwardOp(p, charged, af, ef, nb, seg, e0, dev) ==
    LET F == Len(p.Wq)
        q == LinearQ(p, af)
        e == Encode(charged, ef)
        kmol == LinearK(p, e)
        vmol == LinearV(p, e)
    IN  IF ~CanIndex(Len(ef), seg) THEN Raised
        ELSE
        LET k == IndexSelect(kmol, seg)
            v == IndexSelect(vmol, seg)
        IN  IF ~Broadcastable(Len(k), Len(q)) THEN Raised
            ELSE
            LET weights == Weights(k, q, F)
                a == [i \in 1..Len(weights) |-> Softplus(weights[i])]
            IN  IF ~CanIndexAdd(nb, seg, a) THEN Raised
                ELSE IF ~CanBroadcastNorm(dev, nb, seg) THEN Raised
                ELSE
                LET anorm == IndexAdd(nb, seg, a)
                    w == Normalize(a, BroadcastNorm(dev, anorm, seg), e0)
                IN  [status |-> "returned", device |-> dev, e |-> e, kin |-> KeyInput(e),
                     k |-> k, v |-> v, weights |-> weights, a |-> a,
                     anorm |-> anorm, w |-> w,
                     y |-> ResBlock(p, WeightedValue(w, v))]

\* ------------------------------------------------------- state machine
\* A module is constructed and forward is about to be called on a batch
\* whose shapes agree.
Init ==
    /\ \E md \in Modules, c \in BOOLEAN :
          /\ is_charged = c
          /\ params = Params(md[1], md[2], c)
          /\ \E n \in 1..MaxAtoms, M \in 1..MaxMol :
                /\ atomic_features \in [1..n -> AtomRows(md[1])]
                /\ batch_seg \in [1..n -> 0..(M - 1)]
                /\ electronic_feature \in [1..M -> EVals]
                /\ num_batch = M
    /\ eps \in EpsVals
    /\ pc = "call"
    /\ out = NoResult

\* forward is about to be called on a batch whose lengths (atomic feature
\* rows, segment ids, electronic properties, num_batch) are chosen one by one
\* and whose segment ids range over -MaxMol..MaxMol
InitShapes ==
    /\ \E c \in BOOLEAN :
          /\ is_charged = c
          /\ params = Params(1, 1, c)
    /\ \E n \in 1..MaxAtoms : atomic_features = [i \in 1..n |-> AtomRow(1, 1)]
    /\ \E l \in 0..MaxAtoms : batch_seg \in [1..l -> (-MaxMol)..MaxMol]
    /\ \E M \in 1..MaxMol : electronic_feature \in [1..M -> {-3, 1}]
    /\ num_batch \in 1..MaxMol
    /\ eps = 1
    /\ pc = "call"
    /\ out = NoResult

\* the call of forward on tensors of device dev: it returns the refined rows
\* or raises
Call(dev) ==
    /\ pc' = "done"
    /\ out' = ForwardOp(params, is_charged, atomic_features, electronic_feature,
                        num_batch, batch_seg, eps, dev)
    /\ UNCHANGED <<params, is_charged, atomic_features, electronic_feature,
                   num_batch, batch_seg, eps>>

\* forward on cpu tensors: anorm[batch_seg]
ForwardIndexing ==
    /\ pc = "call"
    /\ Call("cpu")

\* forward on accelerator tensors: torch.gather(anorm, 0, batch_seg)
ForwardGather ==
    /\ pc = "call"
    /\ Call("cuda")

Next == ForwardIndexing \/ ForwardGather

Spec == Init /\ [][Next]_vars

SpecShapes == InitShapes /\ [][Next]_vars

\* ------------------------------------------------------------- claims
\* forward has returned (it did not raise)
Returned == pc = "done" /\ out.status = "returned"

Atoms == 1..Len(batch_seg)

\* the atoms (row positions) of molecule m, m counted from 0
AtomsOf(m) == {i \in Atoms : batch_seg[i] = m}

Molecules == 0..(num_batch - 1)

\* the sum over the atoms of molecule m of the numerators of a / (anorm + eps)
WeightSum(m) ==
    Sum([i \in 1..Len(out.w) |-> IF i \in AtomsOf(m) THEN out.w[i][1] ELSE 0])

\* the denominator anorm + eps the atoms of molecule m are divided by
WeightDen(m) == out.w[CHOOSE i \in AtomsOf(m) : TRUE][2]

ForwardOf(af, ef, nb, seg) ==
    ForwardOp(params, is_charged, af, ef, nb, seg, eps, out.device)

PosOf(m) == SelectSeq([i \in 1..Len(batch_seg) |-> i],
                      LAMBDA i : batch_seg[i] = m)

\* forward on molecule m alone: num_batch = 1, all segment ids 0
Alone(m) ==
    LET pos == PosOf(m)
    IN  ForwardOf([j \in 1..Len(pos) |-> atomic_features[pos[j]]],
                  <<electronic_feature[m + 1]>>, 1,
                  [j \in 1..Len(pos) |-> 0])

\* C2: the output rows of the atoms of a molecule are the same when the
\* molecule is run alone as when it is run inside the batch.
C2_BatchSizeInvariance ==
    Returned =>
        \A m \in Molecules :
            AtomsOf(m) # {} =>
                LET alone == Alone(m)
                    pos == PosOf(m)
                IN  /\ alone.status = "returned"
                    /\ alone.y = [j \in 1..Len(pos) |-> out.y[pos[j]]]

C2_Witness ==
    /\ Returned
    /\ num_batch >= 2
    /\ AtomsOf(0) # {}
    /\ AtomsOf(1) # {}
    /\ electronic_feature[1] # electronic_feature[2]
    /\ \E i \in AtomsOf(0), j \in AtomsOf(1) :
          /\ out.y[i] # out.y[j]
          /\ out.a[i] # out.a[j]

\* the reorderings of the rows that move every atom to a position of its own
\* molecule
MoleculePerms ==
    {pi \in [Atoms -> Atoms] :
        /\ \A i, j \in Atoms : i # j => pi[i] # pi[j]
        /\ \A i \in Atoms : batch_seg[pi[i]] = batch_seg[i]}

Permuted(pi) ==
    ForwardOf([i \in 1..Len(atomic_features) |-> atomic_features[pi[i]]],
              electronic_feature, num_batch,
              [i \in 1..Len(batch_seg) |-> batch_seg[pi[i]]])

\* C3: with the atoms of a molecule reordered (feature rows and segment ids
\* alike), every atom gets the output row it had before.
C3_PermutationInvariance ==
    Returned =>
        \A pi \in MoleculePerms :
            LET permuted == Permuted(pi)
            IN  /\ permuted.status = "returned"
                /\ permuted.y = [i \in 1..Len(batch_seg) |-> out.y[pi[i]]]

C3_Witness ==
    /\ Returned
    /\ \E pi \in MoleculePerms :
          \E i \in Atoms :
              /\ pi[i] # i
              /\ atomic_features[pi[i]] # atomic_features[i]
              /\ out.y[pi[i]] # out.y[i]

\* C6: in spin mode, changing the sign of a molecule's electronic property
\* changes no output.
C6_SpinSignSymmetry ==
    (Returned /\ ~is_charged) =>
        \A m \in Molecules :
            LET flipped == ForwardOf(atomic_features,
                               [electronic_feature EXCEPT ![m + 1] = -@],
                               num_batch, batch_seg)
            IN  /\ flipped.status = "returned"
                /\ flipped.y = out.y
                /\ flipped.w = out.w

C6_Witness ==
    /\ Returned
    /\ ~is_charged
    /\ \E m \in Molecules :
          /\ electronic_feature[m + 1] > 0
          /\ \E i \in AtomsOf(m) : \E f \in 1..Len(out.y[i].num) :
                out.y[i].num[f] # 0

\* C7: in charge mode a scalar x is encoded as [relu(x), relu(-x)]: two
\* channels, both non-negative, at most one non-zero, [c, 0] for +c and
\* [0, c] for -c, which differ for every c > 0; the key and value projections
\* take two inputs.
C7_ChargeSignSeparation ==
    (Returned /\ is_charged) =>
        /\ \A f \in 1..Len(params.Wk) :
              Len(params.Wk[f]) = 2 /\ Len(params.Wv[f]) = 2
        /\ \A m \in 1..Len(electronic_feature) :
              LET x == electronic_feature[m]
                  c == Abs(x)
                  enc == out.e[m]
              IN  /\ Len(enc) = 2
                  /\ enc[1] >= 0 /\ enc[2] >= 0
                  /\ enc[1] = 0 \/ enc[2] = 0
                  /\ (x > 0 => enc = <<c, 0>>)
                  /\ (x < 0 => enc = <<0, c>>)
                  /\ (c > 0 => /\ EncodeOne(is_charged, c) = <<c, 0>>
                               /\ EncodeOne(is_charged, -c) = <<0, c>>
                               /\ EncodeOne(is_charged, c)
                                     # EncodeOne(is_charged, -c))

C7_Witness ==
    /\ Returned
    /\ is_charged
    /\ \E m, n \in 1..Len(electronic_feature) :
          electronic_feature[m] > 0 /\ electronic_feature[n] < 0

\* C8: a molecule whose electronic property is 0 makes forward return; each
\* of its n atoms has the unnormalized weight softplus(0), whatever its
\* features, and the normalized weight softplus(0) / (n * softplus(0) + eps).
C8_ZeroProperty ==
    pc = "done" =>
        \A m \in Molecules :
            (electronic_feature[m + 1] = 0 /\ AtomsOf(m) # {}) =>
                /\ out.status = "returned"
                /\ \A i \in AtomsOf(m) :
                      /\ out.weights[i] = 0
                      /\ out.a[i] = Softplus(0)
                      /\ out.w[i] = <<Softplus(0),
                                      Cardinality(AtomsOf(m)) * Softplus(0) + eps>>
                      /\ out.w[i][2] > 0

C8_Witness ==
    /\ Returned
    /\ \E m \in Molecules :
          /\ electronic_feature[m + 1] = 0
          /\ \E i, j \in AtomsOf(m) : atomic_features[i] # atomic_features[j]

OtherDevice == IF out.device = "cpu" THEN "cuda" ELSE "cpu"

\* C9: indexing anorm[batch_seg] and torch.gather(anorm, 0, batch_seg) give
\* the same array, and forward returns the same on either branch.
C9_IndexingEqualsGather ==
    Returned =>
        /\ IndexSelect(out.anorm, batch_seg) = Gather(out.anorm, batch_seg)
        /\ LET other == ForwardOp(params, is_charged, atomic_features,
                                  electronic_feature, num_batch, batch_seg,
                                  eps, OtherDevice)
           IN  /\ other.status = "returned"
               /\ other.w = out.w
               /\ other.y = out.y

C9_Witness ==
    /\ Returned
    /\ out.device = "cuda"
    /\ num_batch >= 2
    /\ AtomsOf(0) # {}
    /\ AtomsOf(1) # {}
    /\ out.anorm[1] # out.anorm[2]

\* forward with the electronic property of molecule m multiplied by r
Scaled(m, r) ==
    ForwardOf(atomic_features, [electronic_feature EXCEPT ![m + 1] = r * @],
              num_batch, batch_seg)

\* C10: every element of the key input is the raw element when that is at
\* most 1 and is 1 when that is at least 1, so it lies in [0, 1]; keys are
\* projected from it and values from the raw encoding.  Multiplying a
\* property of magnitude at least 1 by r > 0 leaves keys and normalized
\* weights as they are and multiplies the values of the molecule's atoms by r.
C10_KeyValueAsymmetry ==
    Returned =>
        /\ \A m \in 1..Len(out.e) : \A c \in 1..Len(out.e[m]) :
              /\ out.kin[m][c] >= 0 /\ out.kin[m][c] <= One
              /\ (out.e[m][c] <= One => out.kin[m][c] = out.e[m][c])
              /\ (out.e[m][c] >= One => out.kin[m][c] = One)
        /\ \A i \in Atoms :
              /\ out.k[i] = MatVec(params.Wk, out.kin[batch_seg[i] + 1])
              /\ out.v[i] = MatVec(params.Wv, out.e[batch_seg[i] + 1])
        /\ \A m \in Molecules :
              Abs(electronic_feature[m + 1]) >= One =>
                  \A r \in {2} :
                      LET scaled == Scaled(m, r)
                      IN  /\ scaled.k = out.k
                          /\ scaled.w = out.w
                          /\ \A i \in AtomsOf(m) :
                                scaled.v[i] = [f \in 1..Len(out.v[i]) |->
                                                  r * out.v[i][f]]

C10_Witness ==
    /\ Returned
    /\ \E m, n \in Molecules :
          /\ Abs(electronic_feature[m + 1]) >= One
          /\ \E i \in AtomsOf(m) : \E f \in 1..Len(out.v[i]) : out.v[i][f] # 0
          /\ Abs(electronic_feature[n + 1]) > 0
          /\ Abs(electronic_feature[n + 1]) < One
          /\ AtomsOf(n) # {}

\* C4 (as stated): a call whose segment-id array is not as long as the
\* atomic features have rows, or whose electronic-property vector is not as
\* long as num_batch, raises.
C4_ShapeMismatchRaises ==
    (/\ pc = "done"
     /\ \/ Len(batch_seg) # Len(atomic_features)
        \/ Len(electronic_feature) # num_batch)
        => out.status = "raised"

\* C5: a call with a segment id below 0 or at or above num_batch raises.
C5_OutOfRangeIdRaises ==
    (/\ pc = "done"
     /\ \E i \in Atoms : batch_seg[i] < 0 \/ batch_seg[i] >= num_batch)
        => out.status = "raised"

C5_Witness ==
    /\ pc = "done"
    /\ out.status = "raised"
    /\ Len(batch_seg) = Len(atomic_features)
    /\ Len(electronic_feature) > num_batch
    /\ \E i \in Atoms :
          batch_seg[i] >= num_batch /\ batch_seg[i] < Len(electronic_feature)
    /\ \A i \in Atoms : batch_seg[i] >= 0

====
